---- MODULE Spec2Model ----
(***************************************************************************)
(* The Import component of spotify-playlist-importer (src/src/import.rs)   *)
(* as a state machine: one action per message of Import::update, the       *)
(* catalog calls it issues kept in fetch_tasks, and the pure helpers of    *)
(* src/src/playlist_types.rs as operators.                                 *)
(*                                                                         *)
(* Modelling conventions                                                   *)
(*  - a string is a sequence of one-character strings;                     *)
(*  - a track id (input identifier, hash, catalog uri) is a natural        *)
(*    number, so that ids of both kinds share one key space as they do in  *)
(*    the HashMap<String, _> of the code;                                  *)
(*  - a missing Option field is the empty string / 0 (unwrap_or_default);  *)
(*  - a FetchTask is active from FetchService::fetch until its response    *)
(*    callback has produced its message; the message is handled in the     *)
(*    same step, with the task already inactive;                           *)
(*  - FetchService::fetch is taken to return Ok (the request is well       *)
(*    formed), so every issued call is pushed to fetch_tasks;              *)
(*  - a panic (expect) stops the component: panicked = TRUE disables       *)
(*    every action.                                                        *)
(***************************************************************************)
EXTENDS Integers, Sequences, FiniteSets, TLC

(***************************************************************************)
(* Bounds of the model                                                     *)
(***************************************************************************)
\* user actions per run: file selections, playlist creations, mapping changes,
\* manual searches, imports and exports
MaxUser == 2

\* the longest playlist file of the specification of long playlists has
\* LongPages full pages of tracks and LongRest tracks more
LongPages == 2

LongRest == 20

\* the specification of the queries has the tracks of an artist of up to
\* ShortArtist characters and a title of up to MaxTitle characters, and those
\* of an artist of up to MaxArtist characters and a title of up to ShortTitle
\* characters
MaxTitle == 4

ShortArtist == 1

MaxArtist == 3

ShortTitle == 2

(***************************************************************************)
(* Program constants                                                       *)
(***************************************************************************)
\* tracks per bulk-lookup page and per add-items page
PageSize == 50
\* weight of the duration term of the similarity
DurationWeight == 5
\* the similarity is divided by 10
WeightSum == 10
\* the sort key is the similarity times 1000
KeyScale == 1000

(***************************************************************************)
(* Strings                                                                 *)
(***************************************************************************)
IsSpace(c) == c = " "

IsOpen(c) == c \in {"(", "["}

IsClose(c) == c \in {")", "]"}

RECURSIVE TrimStart(_)
TrimStart(s) ==
    IF s # <<>> /\ IsSpace(Head(s)) THEN TrimStart(Tail(s)) ELSE s

RECURSIVE TrimEnd(_)
TrimEnd(s) ==
    IF s # <<>> /\ IsSpace(s[Len(s)])
    THEN TrimEnd(SubSeq(s, 1, Len(s) - 1))
    ELSE s

\* str::trim
Trim(s) == TrimEnd(TrimStart(s))

\* JsString::replace with /\s+/ (no "g" flag): the first run of whitespace
\* only is replaced by one space
ReplaceWhitespaces(s) ==
    IF \E i \in 1..Len(s) : IsSpace(s[i])
    THEN LET i == CHOOSE k \in 1..Len(s) :
                    IsSpace(s[k]) /\ \A m \in 1..(k - 1) : ~IsSpace(s[m])
             j == CHOOSE k \in i..Len(s) :
                    /\ \A m \in i..k : IsSpace(s[m])
                    /\ (k = Len(s) \/ ~IsSpace(s[k + 1]))
         IN  SubSeq(s, 1, i - 1) \o <<" ">> \o SubSeq(s, j + 1, Len(s))
    ELSE s

\* the text from the leftmost opening bracket on is removed, closed or not
StripFromOpen(s) ==
    LET Starts == {i \in 1..Len(s) : IsOpen(s[i])}
    IN  IF Starts = {} THEN s
        ELSE SubSeq(s, 1, (CHOOSE k \in Starts : \A m \in Starts : k <= m) - 1)

\* JsString::replace with /[\(\[].*[\)\]]/: the leftmost opening bracket that
\* has a closing bracket after it, up to the last closing bracket (greedy)
ReplaceBrackets(s) ==
    LET Starts == {i \in 1..Len(s) :
                     IsOpen(s[i]) /\ \E j \in (i + 1)..Len(s) : IsClose(s[j])}
    IN  IF Starts = {} THEN s
        ELSE LET i == CHOOSE k \in Starts : \A m \in Starts : k <= m
                 j == CHOOSE k \in (i + 1)..Len(s) :
                        IsClose(s[k]) /\ \A m \in (k + 1)..Len(s) : ~IsClose(s[m])
             IN  SubSeq(s, 1, i - 1) \o SubSeq(s, j + 1, Len(s))

(***************************************************************************)
(* Tracks                                                                  *)
(***************************************************************************)
\* identifier 0 models None
NoIdentifier == 0

\* DefaultHasher over the fields, rendered as a string: a deterministic
\* function of the fields, in a range of its own
HashBase == 900

Hash(t) == HashBase + ((Len(t.artist) * 31 + Len(t.title) * 7 + t.duration) % 100)

\* Track::id
id(t) == IF t.identifier # NoIdentifier THEN t.identifier ELSE Hash(t)

\* Track::query
query(t) == ReplaceWhitespaces(Trim(t.artist \o <<" ">> \o t.title))

\* the brackets are removed from the title only
AdjustedTitleOnly(t) ==
    ReplaceWhitespaces(Trim(t.artist \o <<" ">> \o ReplaceBrackets(t.title)))

\* Track::adjusted_query
adjusted_query(t) ==
    ReplaceWhitespaces(
        Trim(ReplaceBrackets(t.artist) \o <<" ">> \o ReplaceBrackets(t.title)))

\* the similarity of a division 0/0
NaN == -1

Abs(x) == IF x < 0 THEN -x ELSE x

\* Track::similarity in units of 1/(KeyScale * WeightSum) = 1/10000, truncated.
\* b.text is 2*jaro(artist) + jaro(album) + 2*jaro(title) in 1/KeyScale (strsim
\* is a library: a candidate carries its text similarity); durations are not
\* negative, so the only undefined quotient is 0/0
similarity(a, b) ==
    LET s == a.duration + b.duration
        d == Abs(a.duration - b.duration)
    IN  IF s = 0 THEN NaN
        ELSE (b.text * s * s + DurationWeight * KeyScale * (s - 2 * d) * (s - 2 * d))
                \div (s * s)

\* a NaN that casts to the least key
SortKeyNaNFirst(sim) == IF sim = NaN THEN -(KeyScale * KeyScale) ELSE -(sim \div WeightSum)

\* the key of sort_by_key: -(similarity * 1000.0) as isize; NaN casts to 0
SortKey(sim) == IF sim = NaN THEN 0 ELSE -(sim \div WeightSum)

(***************************************************************************)
(* Maps (HashMap<String, _>) and sequences                                 *)
(***************************************************************************)
EmptyMap == [k \in {} |-> 0]

\* HashMap::insert
Put(m, k, v) == (k :> v) @@ m

Remove(m, k) == [x \in (DOMAIN m) \ {k} |-> m[x]]

Range(s) == {s[i] : i \in DOMAIN s}

\* (len as f64 / 50.0).ceil() as usize
Ceil(n, d) == (n + d - 1) \div d

\* iter().skip(k).take(n)
SkipTake(s, k, n) ==
    IF k >= Len(s) THEN <<>>
    ELSE SubSeq(s, k + 1, IF k + n < Len(s) THEN k + n ELSE Len(s))

\* Vec::sort_by_key is stable: an entry goes after the entries whose key is
\* not greater
RECURSIVE InsertByKey(_, _)
InsertByKey(sorted, e) ==
    IF sorted = <<>> THEN <<e>>
    ELSE IF SortKey(e.similarity) < SortKey(Head(sorted).similarity)
         THEN <<e>> \o sorted
         ELSE <<Head(sorted)>> \o InsertByKey(Tail(sorted), e)

RECURSIVE SortByKey(_)
SortByKey(s) ==
    IF s = <<>> THEN <<>>
    ELSE InsertByKey(SortByKey(SubSeq(s, 1, Len(s) - 1)), s[Len(s)])

(***************************************************************************)
(* The environment: playlist files, the catalog, the store                 *)
(***************************************************************************)
TrackA == [identifier |-> 1, artist |-> <<"A">>,
           title |-> <<"X", " ", "(", "f", ")">>, duration |-> 2]

TrackB == [identifier |-> 2, artist |-> <<"B">>, title |-> <<"Y">>, duration |-> 3]

\* no identifier: its id is its hash
TrackC == [identifier |-> NoIdentifier, artist |-> <<"C">>, title |-> <<>>,
           duration |-> 0]

\* the track lists of the playlist files the user can select; the second one
\* has the same track twice
Playlists == {<<TrackA, TrackB>>, <<TrackA, TrackA>>, <<TrackC>>}

\* a file that does not deserialize
Malformed == [ok |-> FALSE, tracks |-> <<>>]

Files == {[ok |-> TRUE, tracks |-> p] : p \in Playlists} \cup {Malformed}

\* a catalog track as Track::from(SpotifyTrack): its uri is its identifier
CatalogTrack(uri) ==
    [identifier |-> uri,
     text |-> (uri % 5) * KeyScale,
     duration |-> (uri % 3)]

\* what a search can answer
SearchResults ==
    {<<>>, <<CatalogTrack(101), CatalogTrack(102)>>}

\* what the store can hold when the component is created
StoredMappings == {EmptyMap, Put(Put(EmptyMap, 1, 101), 2, 103)}

(***************************************************************************)
(* State                                                                   *)
(***************************************************************************)
VARIABLES
    in_tracks,                  \* State::in_tracks
    out_tracks,                 \* State::out_tracks: input id -> MatchList
    id_mapping,                 \* State::id_mapping
    storage,                    \* the mapping stored under LS_ID_MAPPING
    out_playlists,              \* State::out_playlists (ids)
    selected_out_playlist,      \* State::selected_out_playlist ("" is None)
    fetch_out_tracks_queue,     \* State::fetch_out_tracks_queue
    fetch_out_tracks_remaining, \* State::fetch_out_tracks_remaining, in
                                \* iteration order: <<input id, output id>>
    fetch_out_tracks_remaining_batch_index,
    import_matched_batch_index,
    import_matched_done,
    error_message,              \* State::error_message ("" is None)
    fetch_tasks,                \* Import::fetch_tasks
    reader_tasks,               \* files being read (Import::reader_tasks)
    downloaded,                 \* the last track list handed to download_file
    panicked,                   \* an expect has failed
    used,                       \* user actions taken so far
    hist,                       \* history of the calls issued
    last                        \* the message handled last

vars == <<in_tracks, out_tracks, id_mapping, storage, out_playlists,
          selected_out_playlist, fetch_out_tracks_queue,
          fetch_out_tracks_remaining, fetch_out_tracks_remaining_batch_index,
          import_matched_batch_index, import_matched_done, error_message,
          fetch_tasks, reader_tasks, downloaded, panicked, used, hist, last>>

None == ""

\* FetchInitiator
Auto(n) == [kind |-> "Auto", try |-> n]

Manual == [kind |-> "Manual", try |-> 0]

\* a FetchTask of fetch_tasks with what its request and its callback hold:
\* the query, input id and initiator of a search (n numbers its task); the
\* page of a bulk lookup (the ids asked for and the id_lookup); the uris of an
\* add-items call
Task(kind, input_id, initiator, n, request) ==
    [kind |-> kind, active |-> TRUE, input_id |-> input_id,
     initiator |-> initiator, n |-> n, request |-> request]

\* a message of Import::update with what it carries: the call it answers,
\* its input id and initiator, the number of tracks found
Event(msg, call, input_id, initiator, found) ==
    [msg |-> msg, call |-> call, input_id |-> input_id, initiator |-> initiator,
     found |-> found]

\* a message that answers no call
UserEvent(msg, input_id) == Event(msg, "", input_id, Manual, 0)

Active(tasks) == {i \in DOMAIN tasks : tasks[i].active}

ActiveOf(tasks, kind) == {i \in Active(tasks) : tasks[i].kind = kind}

\* the tasks once the response of task i has arrived. The task is inactive
\* from then on; an inactive task is never read again (is_active is the only
\* thing read of a task) and retain drops it, so it is dropped here
Complete(tasks, i) == SubSeq(tasks, 1, i - 1) \o SubSeq(tasks, i + 1, Len(tasks))

(***************************************************************************)
(* Import::insert_out_track                                                *)
(***************************************************************************)
InTrackIds(tracks) == {id(tracks[i]) : i \in DOMAIN tracks}

\* in_tracks.iter().find(|in_track| in_track.id() == *input_id)
FindInTrack(tracks, input_id) ==
    tracks[CHOOSE i \in DOMAIN tracks :
             id(tracks[i]) = input_id /\ \A j \in 1..(i - 1) : id(tracks[j]) # input_id]

\* new_out_tracks.map(|out_track| (in_track.similarity(&out_track), out_track))
Scored(in_track, new_out_tracks) ==
    [i \in DOMAIN new_out_tracks |->
        [similarity |-> similarity(in_track, new_out_tracks[i]),
         track |-> new_out_tracks[i]]]

\* out_tracks.append(&mut new_out_tracks); out_tracks.sort_by_key(..)
AppendAndSort(list, scored) == SortByKey(list \o scored)

\* the last entry of the list taken for the first
LowestRanked(list) == list[Len(list)].track.identifier

\* the default mapping: the first entry of the sorted list
DefaultMapping(list) == list[1].track.identifier

\* the store after insert_out_track has set a default mapping: the new
\* mapping replaces the stored one
StoredDefault(stored, idm) == idm

\* fetch_out_tracks_remaining.get(&input_id); NoIdentifier is None
RemainingGet(rem, input_id) ==
    LET hits == {i \in DOMAIN rem : rem[i][1] = input_id}
    IN  IF hits = {} THEN NoIdentifier ELSE rem[CHOOSE i \in hits : TRUE][2]

\* the entry is kept
RemainingKeep(rem, input_id) == rem

RemainingRemove(rem, input_id) == SelectSeq(rem, LAMBDA e : e[1] # input_id)

\* the state insert_out_track works on
Cache(ot, idm, st, rem, pan) ==
    [out_tracks |-> ot, id_mapping |-> idm, storage |-> st, remaining |-> rem,
     panicked |-> pan]

\* every insert sets the default mapping
AlwaysDefault(c, input_id) == TRUE

\* the default mapping is set by the first insert for an input id only
DefaultOnFirstInsert(c, input_id) ==
    input_id \notin DOMAIN c.id_mapping /\ input_id \notin DOMAIN c.out_tracks

\* if !self.state.id_mapping.contains_key(&input_id)
NeedsDefault(c, input_id) == input_id \notin DOMAIN c.id_mapping

\* insert_out_track(input_id, new_out_tracks) on the state c, with the input
\* tracks "tracks"; new_out_tracks is not empty
insert_out_track(tracks, c, input_id, new_out_tracks) ==
    IF c.panicked \/ input_id \notin InTrackIds(tracks)
    THEN [c EXCEPT !.panicked = TRUE]
    ELSE LET in_track == FindInTrack(tracks, input_id)
             old == IF input_id \in DOMAIN c.out_tracks
                    THEN c.out_tracks[input_id] ELSE <<>>
             list == AppendAndSort(old, Scored(in_track, new_out_tracks))
             set_default == NeedsDefault(c, input_id)
             idm == IF set_default
                    THEN Put(c.id_mapping, input_id, DefaultMapping(list))
                    ELSE c.id_mapping
             output_id == RemainingGet(c.remaining, input_id)
             found == /\ output_id # NoIdentifier
                      /\ \E i \in DOMAIN list : list[i].track.identifier = output_id
         IN  [out_tracks |-> Put(c.out_tracks, input_id, list),
              id_mapping |-> idm,
              storage |-> IF set_default THEN StoredDefault(c.storage, idm)
                          ELSE c.storage,
              remaining |-> IF found THEN RemainingRemove(c.remaining, input_id)
                            ELSE c.remaining,
              panicked |-> FALSE]

\* for (input_id, new_out_track) in tracks { insert_out_track(..) }
RECURSIVE InsertAll(_, _, _)
InsertAll(tracks, c, pairs) ==
    IF pairs = <<>> THEN c
    ELSE IF Len(pairs) = 1
         THEN insert_out_track(tracks, c, pairs[1][1], <<pairs[1][2]>>)
         ELSE LET half == Len(pairs) \div 2
                  first == InsertAll(tracks, c, SubSeq(pairs, 1, half))
              IN  IF first.panicked THEN first
                  ELSE InsertAll(tracks, first, SubSeq(pairs, half + 1, Len(pairs)))

(***************************************************************************)
(* Import::fetch_next_out_track                                            *)
(***************************************************************************)
\* fetch_tasks.retain(FetchTask::is_active)
Retain(tasks) == SelectSeq(tasks, LAMBDA t : t.active)

\* fetch_out_track: the search call of a queued task
SearchTask(task) ==
    Task("search", task.input_id, task.initiator, task.n, task.query)

\* fetch_remaining_out_tracks: the bulk lookup of page batch_index; id_lookup
\* is built from the page's entries
BulkTask(rem, batch_index) ==
    Task("tracks", 0, Manual, 0, SkipTake(rem, batch_index * PageSize, PageSize))

\* a search is issued whatever else is outstanding
PopBesideOthers(kept) == TRUE

\* while self.fetch_tasks.len() < 1: the loop pops a task
MayPop(kept) == Len(kept) < 1

\* a bulk lookup is issued whatever else is outstanding
LookUpBesideOthers(searched) == TRUE

\* if self.fetch_tasks.len() == 0: a bulk lookup may be issued
MayLookUp(searched) == Len(searched) = 0

\* the page cursor stays where it is
SameIndex(batch_index) == batch_index

\* fetch_out_tracks_remaining_batch_index += 1
NextIndex(batch_index) == batch_index + 1

\* fetch_next_out_track on the tasks, the queue, the remaining set and the
\* page cursor
fetch_next_out_track(tasks, queue, rem, batch_index) ==
    LET kept == Retain(tasks)
        pop == MayPop(kept) /\ queue # <<>>
        searched == IF pop THEN Append(kept, SearchTask(Head(queue))) ELSE kept
        batch_count == Ceil(Len(rem), PageSize)
        bulk == MayLookUp(searched) /\ batch_index < batch_count
    IN  [fetch_tasks |-> IF bulk THEN Append(searched, BulkTask(rem, batch_index))
                         ELSE searched,
         queue |-> IF pop THEN Tail(queue) ELSE queue,
         batch_index |-> IF bulk THEN NextIndex(batch_index) ELSE batch_index,
         search |-> IF pop THEN <<Head(queue)>> ELSE <<>>,
         page |-> IF bulk THEN <<SkipTake(rem, batch_index * PageSize, PageSize)>>
                  ELSE <<>>]

\* the history after the calls that fetch_next_out_track has issued
Issued(h, next, rem) ==
    [h EXCEPT !.last_search = IF next.search # <<>> THEN next.search[1].n ELSE @,
              !.drained_n = IF next.page # <<>> /\ h.pages = <<>> THEN Len(rem) ELSE @,
              !.pages = @ \o [i \in DOMAIN next.page |->
                                [k \in DOMAIN next.page[i] |-> next.page[i][k][1]]]]

(***************************************************************************)
(* Import::create                                                          *)
(***************************************************************************)
\* the component created over a store that holds the mapping stored
Created(stored) ==
    /\ in_tracks = <<>>
    /\ out_tracks = EmptyMap
    /\ id_mapping = stored
    /\ storage = stored
    /\ out_playlists = <<>>
    /\ selected_out_playlist = None
    /\ fetch_out_tracks_queue = <<>>
    /\ fetch_out_tracks_remaining = <<>>
    /\ fetch_out_tracks_remaining_batch_index = 0
    /\ import_matched_batch_index = 0
    /\ import_matched_done = FALSE
    /\ error_message = None
    /\ fetch_tasks = <<Task("playlists", 0, Manual, 0, <<>>)>>
    /\ reader_tasks = <<>>
    /\ downloaded = <<>>
    /\ panicked = FALSE
    /\ used = 0
    /\ hist = [enq |-> 0, last_search |-> 0, retried |-> <<>>, retry_of |-> <<>>,
               pages |-> <<>>, drained_n |-> 0, imports |-> 0, add_pages |-> <<>>,
               add_ok |-> {}]
    /\ last = UserEvent("create", 0)

Init == \E stored \in StoredMappings : Created(stored)

(***************************************************************************)
(* Import::update, one action per message                                  *)
(***************************************************************************)
\* what the listing of the user's playlists can answer
PlaylistListings == {<<"p1">>}

\* Msg::OutPlaylistsLoaded
OutPlaylistsLoaded ==
    /\ ~panicked
    /\ \E i \in ActiveOf(fetch_tasks, "playlists"), playlists \in PlaylistListings :
        /\ fetch_tasks' = Complete(fetch_tasks, i)
        /\ error_message' = None
        /\ out_playlists' = playlists
    /\ last' = Event("OutPlaylistsLoaded", "playlists", 0, Manual, 0)
    /\ UNCHANGED <<in_tracks, out_tracks, id_mapping, storage, selected_out_playlist,
                   fetch_out_tracks_queue, fetch_out_tracks_remaining,
                   fetch_out_tracks_remaining_batch_index, import_matched_batch_index,
                   import_matched_done, reader_tasks, downloaded, panicked, used, hist>>

\* Msg::OutPlaylistSelected with the id of a listed playlist, or with "" (the
\* "Select playlist" option, shown while none is selected)
OutPlaylistSelected ==
    /\ ~panicked
    /\ \E playlist_id \in Range(out_playlists)
                          \cup (IF selected_out_playlist = None THEN {None} ELSE {}) :
        selected_out_playlist' = playlist_id
    /\ last' = UserEvent("OutPlaylistSelected", 0)
    /\ UNCHANGED <<in_tracks, out_tracks, id_mapping, storage, out_playlists,
                   fetch_out_tracks_queue, fetch_out_tracks_remaining,
                   fetch_out_tracks_remaining_batch_index, import_matched_batch_index,
                   import_matched_done, error_message, fetch_tasks, reader_tasks,
                   downloaded, panicked, used, hist>>

\* Msg::OutPlaylistSelected("create") with a name entered: create_playlist
CreatePlaylist ==
    /\ ~panicked
    /\ used < MaxUser
    /\ used' = used + 1
    /\ fetch_tasks' = Append(fetch_tasks, Task("create", 0, Manual, 0, <<>>))
    /\ last' = UserEvent("OutPlaylistSelected", 0)
    /\ UNCHANGED <<in_tracks, out_tracks, id_mapping, storage, out_playlists,
                   selected_out_playlist, fetch_out_tracks_queue,
                   fetch_out_tracks_remaining, fetch_out_tracks_remaining_batch_index,
                   import_matched_batch_index, import_matched_done, error_message,
                   reader_tasks, downloaded, panicked, hist>>

\* the id the catalog gives a created playlist
CreatedPlaylist == "p2"

\* Msg::OutPlaylistCreated
OutPlaylistCreated ==
    /\ ~panicked
    /\ \E i \in ActiveOf(fetch_tasks, "create") :
        fetch_tasks' = Complete(fetch_tasks, i)
    /\ selected_out_playlist' = CreatedPlaylist
    /\ out_playlists' = Append(out_playlists, CreatedPlaylist)
    /\ last' = Event("OutPlaylistCreated", "create", 0, Manual, 0)
    /\ UNCHANGED <<in_tracks, out_tracks, id_mapping, storage, fetch_out_tracks_queue,
                   fetch_out_tracks_remaining, fetch_out_tracks_remaining_batch_index,
                   import_matched_batch_index, import_matched_done, error_message,
                   reader_tasks, downloaded, panicked, used, hist>>

\* Msg::InPlaylistSelected(file): the file is handed to the reader
ReadFile(file) ==
    /\ ~panicked
    /\ used < MaxUser
    /\ used' = used + 1
    /\ reader_tasks' = Append(reader_tasks, file)
    /\ last' = UserEvent("InPlaylistSelected", 0)
    /\ UNCHANGED <<in_tracks, out_tracks, id_mapping, storage, out_playlists,
                   selected_out_playlist, fetch_out_tracks_queue,
                   fetch_out_tracks_remaining, fetch_out_tracks_remaining_batch_index,
                   import_matched_batch_index, import_matched_done, error_message,
                   fetch_tasks, downloaded, panicked, hist>>

\* Msg::InPlaylistSelected with one of the files
InPlaylistSelected == \E file \in Files : ReadFile(file)

\* the tasks of the tracks with the adjusted query for the query
AdjustedTasks(tracks, n) ==
    [i \in DOMAIN tracks |->
        [input_id |-> id(tracks[i]), query |-> adjusted_query(tracks[i]),
         initiator |-> Auto(1), n |-> n + i]]

\* the Auto(1) tasks of the tracks, numbered from n + 1 in the order they are
\* pushed
AutoTasks(tracks, n) ==
    [i \in DOMAIN tracks |->
        [input_id |-> id(tracks[i]), query |-> query(tracks[i]),
         initiator |-> Auto(1), n |-> n + i]]

\* the queue after the loop that pushes the new tasks
QueueAfterLoad(queue, tracks, n) == queue \o AutoTasks(tracks, n)

\* the entries of fetch_out_tracks_remaining after the loop that fills it,
\* in insertion order; a second insert of a key replaces its value in place
RemainingAfterLoad(tracks, idm, ot) ==
    LET inserts(i) == /\ id(tracks[i]) \in DOMAIN idm
                      /\ idm[id(tracks[i])] \notin DOMAIN ot
        first(i) == \A j \in 1..(i - 1) : id(tracks[j]) # id(tracks[i])
        kept == SelectSeq([i \in DOMAIN tracks |-> i],
                          LAMBDA i : inserts(i) /\ first(i))
    IN  [k \in DOMAIN kept |-> <<id(tracks[kept[k]]), idm[id(tracks[kept[k]])]>>]

Reverse(s) == [i \in DOMAIN s |-> s[Len(s) + 1 - i]]

\* the iteration order of a HashMap is not specified
IterationOrders(entries) == {entries, Reverse(entries)}

\* Msg::InPlaylistLoaded
InPlaylistLoaded ==
    /\ ~panicked
    /\ \E r \in DOMAIN reader_tasks :
        LET file == reader_tasks[r].tracks
            rest == SubSeq(reader_tasks, 1, r - 1)
                        \o SubSeq(reader_tasks, r + 1, Len(reader_tasks))
        IN  /\ reader_tasks' = rest
            /\ IF ~reader_tasks[r].ok
               THEN /\ panicked' = TRUE
                    /\ UNCHANGED <<in_tracks, fetch_out_tracks_queue,
                                   fetch_out_tracks_remaining,
                                   fetch_out_tracks_remaining_batch_index,
                                   fetch_tasks, hist>>
               ELSE \E rem \in IterationOrders(
                                 RemainingAfterLoad(file, id_mapping, out_tracks)) :
                    LET queue == QueueAfterLoad(fetch_out_tracks_queue, file, hist.enq)
                        next == fetch_next_out_track(fetch_tasks, queue, rem, 0)
                        h == [hist EXCEPT !.enq = @ + Len(file), !.retried = <<>>,
                                          !.pages = <<>>, !.drained_n = 0]
                    IN  /\ in_tracks' = file
                        /\ fetch_out_tracks_queue' = next.queue
                        /\ fetch_out_tracks_remaining' = rem
                        /\ fetch_out_tracks_remaining_batch_index' = next.batch_index
                        /\ fetch_tasks' = next.fetch_tasks
                        /\ hist' = Issued(h, next, rem)
                        /\ UNCHANGED panicked
    /\ last' = UserEvent("InPlaylistLoaded", 0)
    /\ UNCHANGED <<out_tracks, id_mapping, storage, out_playlists,
                   selected_out_playlist, import_matched_batch_index,
                   import_matched_done, error_message, downloaded, used>>

\* the options of a track's select box that carry a catalog id: its
\* candidates and, while the mapped track is not among them, the mapped id
MappingOptions(input_id) ==
    (IF input_id \in DOMAIN out_tracks
     THEN {out_tracks[input_id][i].track.identifier : i \in DOMAIN out_tracks[input_id]}
     ELSE {})
    \cup (IF input_id \in DOMAIN id_mapping THEN {id_mapping[input_id]} ELSE {})

\* the mapping after Msg::SetIdMapping(input_id, Some(output_id))
SetMapping(idm, input_id, output_id) == Put(idm, input_id, output_id)

\* the mapping after Msg::SetIdMapping(input_id, None)
RemoveMapping(idm, input_id) == Remove(idm, input_id)

\* the store after Msg::SetIdMapping(input_id, Some(output_id)): the mapping
\* is stored after it is changed
StoredAfterSet(idm, input_id, output_id) == SetMapping(idm, input_id, output_id)

\* the store written before the mapping is changed
StoredBeforeRemove(idm, input_id) == idm

\* the store after Msg::SetIdMapping(input_id, None)
StoredAfterRemove(idm, input_id) == RemoveMapping(idm, input_id)

\* Msg::SetIdMapping(input_id, Some(output_id))
SetIdMapping ==
    /\ ~panicked
    /\ used < MaxUser
    /\ used' = used + 1
    /\ \E input_id \in InTrackIds(in_tracks) :
        \E output_id \in MappingOptions(input_id) :
            /\ id_mapping' = SetMapping(id_mapping, input_id, output_id)
            /\ storage' = StoredAfterSet(id_mapping, input_id, output_id)
            /\ last' = UserEvent("SetIdMapping", input_id)
    /\ UNCHANGED <<in_tracks, out_tracks, out_playlists, selected_out_playlist,
                   fetch_out_tracks_queue, fetch_out_tracks_remaining,
                   fetch_out_tracks_remaining_batch_index, import_matched_batch_index,
                   import_matched_done, error_message, fetch_tasks, reader_tasks,
                   downloaded, panicked, hist>>

\* Msg::SetIdMapping(input_id, None)
SetIdMappingNone ==
    /\ ~panicked
    /\ used < MaxUser
    /\ used' = used + 1
    /\ \E input_id \in InTrackIds(in_tracks) :
        /\ id_mapping' = RemoveMapping(id_mapping, input_id)
        /\ storage' = StoredAfterRemove(id_mapping, input_id)
        /\ last' = UserEvent("SetIdMappingNone", input_id)
    /\ UNCHANGED <<in_tracks, out_tracks, out_playlists, selected_out_playlist,
                   fetch_out_tracks_queue, fetch_out_tracks_remaining,
                   fetch_out_tracks_remaining_batch_index, import_matched_batch_index,
                   import_matched_done, error_message, fetch_tasks, reader_tasks,
                   downloaded, panicked, hist>>

\* a push at the front of the queue instead of the back
PushFront(queue, task) == <<task>> \o queue

\* fetch_out_tracks_queue.push_back(task)
PushBack(queue, task) == Append(queue, task)

\* Msg::QueryOutTrack(input_id, query): the prompt offers query(track)
QueryOutTrack ==
    /\ ~panicked
    /\ used < MaxUser
    /\ used' = used + 1
    /\ \E t \in Range(in_tracks) :
        LET queue == PushBack(fetch_out_tracks_queue,
                              [input_id |-> id(t), query |-> query(t),
                               initiator |-> Manual, n |-> hist.enq + 1])
            next == fetch_next_out_track(fetch_tasks, queue,
                        fetch_out_tracks_remaining,
                        fetch_out_tracks_remaining_batch_index)
        IN  /\ fetch_out_tracks_queue' = next.queue
            /\ fetch_out_tracks_remaining_batch_index' = next.batch_index
            /\ fetch_tasks' = next.fetch_tasks
            /\ hist' = Issued([hist EXCEPT !.enq = @ + 1], next,
                              fetch_out_tracks_remaining)
            /\ last' = UserEvent("QueryOutTrack", id(t))
    /\ UNCHANGED <<in_tracks, out_tracks, id_mapping, storage, out_playlists,
                   selected_out_playlist, fetch_out_tracks_remaining,
                   import_matched_batch_index, import_matched_done, error_message,
                   reader_tasks, downloaded, panicked>>

\* a retry after every automatic search without results
RetryEveryAuto(tracks, task, n) ==
    IF task.initiator.kind = "Auto"
    THEN LET in_track == FindInTrack(tracks, task.input_id)
         IN  IF adjusted_query(in_track) # query(in_track)
             THEN <<[input_id |-> id(in_track), query |-> adjusted_query(in_track),
                     initiator |-> Auto(task.initiator.try + 1), n |-> n + 1]>>
             ELSE <<>>
    ELSE <<>>

\* a retry after a first automatic search without results, whatever the
\* adjusted query
RetryUnchangedQuery(tracks, task, n) ==
    IF task.initiator.kind = "Auto" /\ task.initiator.try = 1
    THEN LET in_track == FindInTrack(tracks, task.input_id)
         IN  <<[input_id |-> id(in_track), query |-> adjusted_query(in_track),
                initiator |-> Auto(task.initiator.try + 1), n |-> n + 1]>>
    ELSE <<>>

\* the retry that a search without results asks for: the tasks to push
RetryTasks(tracks, task, n) ==
    IF task.initiator.kind = "Auto" /\ task.initiator.try = 1
    THEN LET in_track == FindInTrack(tracks, task.input_id)
         IN  IF adjusted_query(in_track) # query(in_track)
             THEN <<[input_id |-> id(in_track), query |-> adjusted_query(in_track),
                     initiator |-> Auto(task.initiator.try + 1), n |-> n + 1]>>
             ELSE <<>>
    ELSE <<>>

\* the retry tasks go before the queued tasks
QueueRetryFirst(queue, retry) == retry \o queue

\* the queue after the retry tasks are pushed
QueueAfterRetry(queue, retry) ==
    IF retry = <<>> THEN queue ELSE PushBack(queue, retry[1])

\* Msg::OutTracksFound(input_id, new_out_tracks, fetch_initiator) for the
\* search of fetch_tasks[i]
SearchAnswered(i, new_out_tracks) ==
    /\ ~panicked
    /\  LET task == fetch_tasks[i]
            tasks == Complete(fetch_tasks, i)
            c0 == Cache(out_tracks, id_mapping, storage, fetch_out_tracks_remaining,
                        FALSE)
            unknown == /\ new_out_tracks = <<>>
                       /\ task.initiator = Auto(1)
                       /\ task.input_id \notin InTrackIds(in_tracks)
            c == IF new_out_tracks # <<>>
                 THEN insert_out_track(in_tracks, c0, task.input_id, new_out_tracks)
                 ELSE [c0 EXCEPT !.panicked = unknown]
            retry == IF new_out_tracks = <<>> /\ ~unknown
                     THEN RetryTasks(in_tracks, task, hist.enq) ELSE <<>>
            queue == QueueAfterRetry(fetch_out_tracks_queue, retry)
            next == fetch_next_out_track(tasks, queue, c.remaining,
                        fetch_out_tracks_remaining_batch_index)
            h == [hist EXCEPT !.enq = @ + Len(retry),
                              !.retried = @ \o [k \in DOMAIN retry |-> retry[k].input_id],
                              !.retry_of = @ \o [k \in DOMAIN retry |-> task.n]]
        IN  /\ error_message' = None
            /\ last' = Event("OutTracksFound", "search", task.input_id,
                             task.initiator, Len(new_out_tracks))
            /\ out_tracks' = c.out_tracks
            /\ id_mapping' = c.id_mapping
            /\ storage' = c.storage
            /\ panicked' = c.panicked
            /\ IF c.panicked
               THEN /\ fetch_tasks' = tasks
                    /\ UNCHANGED <<fetch_out_tracks_queue, fetch_out_tracks_remaining,
                                   fetch_out_tracks_remaining_batch_index, hist>>
               ELSE /\ fetch_tasks' = next.fetch_tasks
                    /\ fetch_out_tracks_queue' = next.queue
                    /\ fetch_out_tracks_remaining' = c.remaining
                    /\ fetch_out_tracks_remaining_batch_index' = next.batch_index
                    /\ hist' = Issued(h, next, c.remaining)
    /\ UNCHANGED <<in_tracks, out_playlists, selected_out_playlist,
                   import_matched_batch_index, import_matched_done, reader_tasks,
                   downloaded, used>>

\* Msg::OutTracksFound with any of the search results
OutTracksFound ==
    \E i \in ActiveOf(fetch_tasks, "search"), new_out_tracks \in SearchResults :
        SearchAnswered(i, new_out_tracks)

\* a catalog track nobody asked for
UnexpectedUri == 199

\* the answer of a bulk lookup that returns each requested track, in order
Requested(page) == [k \in DOMAIN page |-> CatalogTrack(page[k][2])]

\* what a bulk lookup of a page can answer: the tracks asked for, or these
\* and one that was not asked for
BulkResponses(page) ==
    {Requested(page), Append(Requested(page), CatalogTrack(UnexpectedUri))}

\* id_lookup.get(&output_id): the page collected into a HashMap from output
\* id to input id, a later entry replacing an earlier one; NoIdentifier is None
IdLookup(page, output_id) ==
    LET hits == {k \in DOMAIN page : page[k][2] = output_id}
    IN  IF hits = {} THEN NoIdentifier
        ELSE page[CHOOSE k \in hits : \A m \in hits : m <= k][1]

\* the callback of fetch_remaining_out_tracks: (input_id, out_track) pairs
LookedUp(page, tracks) ==
    [k \in DOMAIN tracks |-> <<IdLookup(page, tracks[k].identifier), tracks[k]>>]

\* a response is taken as it comes
NeverUnexpected(page, response) == FALSE

\* id_lookup.get(&output_id).expect("received unexpected track") fails for a
\* track of the response
Unexpected(page, response) ==
    \E k \in DOMAIN response : IdLookup(page, response[k].identifier) = NoIdentifier

\* Msg::RemainingOutTracksFound(tracks) for the lookup of fetch_tasks[i], or
\* the panic of the callback that builds it ("received unexpected track")
BulkAnswered(i, response) ==
    /\ ~panicked
    /\  LET page == fetch_tasks[i].request
            tasks == Complete(fetch_tasks, i)
            unexpected == Unexpected(page, response)
        IN  IF unexpected
            THEN /\ panicked' = TRUE
                 /\ fetch_tasks' = tasks
                 /\ last' = Event("Panic", "tracks", 0, Manual, Len(response))
                 /\ UNCHANGED <<out_tracks, id_mapping, storage, error_message,
                                fetch_out_tracks_queue, fetch_out_tracks_remaining,
                                fetch_out_tracks_remaining_batch_index, hist>>
            ELSE LET c == InsertAll(in_tracks,
                              Cache(out_tracks, id_mapping, storage,
                                    fetch_out_tracks_remaining, FALSE),
                              LookedUp(page, response))
                     next == fetch_next_out_track(tasks, fetch_out_tracks_queue,
                                 c.remaining, fetch_out_tracks_remaining_batch_index)
                 IN  /\ error_message' = None
                     /\ last' = Event("RemainingOutTracksFound", "tracks", 0,
                                      Manual, Len(response))
                     /\ out_tracks' = c.out_tracks
                     /\ id_mapping' = c.id_mapping
                     /\ storage' = c.storage
                     /\ panicked' = c.panicked
                     /\ fetch_out_tracks_remaining' = c.remaining
                     /\ IF c.panicked
                        THEN /\ fetch_tasks' = tasks
                             /\ UNCHANGED <<fetch_out_tracks_queue,
                                            fetch_out_tracks_remaining_batch_index,
                                            hist>>
                        ELSE /\ fetch_tasks' = next.fetch_tasks
                             /\ fetch_out_tracks_queue' = next.queue
                             /\ fetch_out_tracks_remaining_batch_index' =
                                    next.batch_index
                             /\ hist' = Issued(hist, next, c.remaining)
    /\ UNCHANGED <<in_tracks, out_playlists, selected_out_playlist,
                   import_matched_batch_index, import_matched_done, reader_tasks,
                   downloaded, used>>

\* Msg::RemainingOutTracksFound with any of the answers
RemainingOutTracksFound ==
    \E i \in ActiveOf(fetch_tasks, "tracks") :
        \E response \in BulkResponses(fetch_tasks[i].request) :
            BulkAnswered(i, response)

\* the tracks that have a mapping
Matched(tracks, idm) == SelectSeq(tracks, LAMBDA t : id(t) \in DOMAIN idm)

\* the tracks Msg::ExportUnmatched keeps
Unmatched(tracks, idm) == SelectSeq(tracks, LAMBDA t : id(t) \notin DOMAIN idm)

\* Msg::ExportUnmatched (the button is disabled while in_tracks is empty)
ExportUnmatched ==
    /\ ~panicked
    /\ used < MaxUser
    /\ used' = used + 1
    /\ in_tracks # <<>>
    /\ downloaded' = Unmatched(in_tracks, id_mapping)
    /\ last' = UserEvent("ExportUnmatched", 0)
    /\ UNCHANGED <<in_tracks, out_tracks, id_mapping, storage, out_playlists,
                   selected_out_playlist, fetch_out_tracks_queue,
                   fetch_out_tracks_remaining, fetch_out_tracks_remaining_batch_index,
                   import_matched_batch_index, import_matched_done, error_message,
                   fetch_tasks, reader_tasks, panicked, hist>>

\* the uris of add_to_playlist: the mapped ids of the tracks of the page
MappedIds(tracks, idm) ==
    LET mapped == SelectSeq(tracks, LAMBDA t : id(t) \in DOMAIN idm)
    IN  [k \in DOMAIN mapped |-> idm[id(mapped[k])]]

\* the mapped ids of all the tracks, whatever the page
UrisOfAll(tracks, idm, batch_index) == MappedIds(tracks, idm)

Uris(tracks, idm, batch_index) ==
    MappedIds(SkipTake(tracks, batch_index * PageSize, PageSize), idm)

\* add_next_to_playlist: the add-items calls to push (their batch index is
\* kept in input_id, the number of the import in n)
add_next_to_playlist(tracks, idm, batch_index, import) ==
    IF batch_index < Ceil(Len(tracks), PageSize)
    THEN <<Task("add", batch_index, Manual, import, Uris(tracks, idm, batch_index))>>
    ELSE <<>>

\* Msg::ImportMatched (the button is disabled while in_tracks is empty or no
\* playlist is selected)
ImportMatched ==
    /\ ~panicked
    /\ used < MaxUser
    /\ in_tracks # <<>>
    /\ selected_out_playlist # None
    /\ used' = used + 1
    /\ LET added == add_next_to_playlist(in_tracks, id_mapping, 0, hist.imports + 1)
       IN  /\ import_matched_batch_index' = Len(added)
           /\ import_matched_done' = FALSE
           /\ last' = UserEvent("ImportMatched", 0)
           /\ fetch_tasks' = fetch_tasks \o added
           /\ hist' = [hist EXCEPT !.imports = @ + 1,
                                   !.add_pages = [k \in DOMAIN added |-> 0],
                                   !.add_ok = {}]
    /\ UNCHANGED <<in_tracks, out_tracks, id_mapping, storage, out_playlists,
                   selected_out_playlist, fetch_out_tracks_queue,
                   fetch_out_tracks_remaining, fetch_out_tracks_remaining_batch_index,
                   error_message, reader_tasks, downloaded, panicked>>

\* the add-items calls that Msg::ImportMatchedDone pushes
AddAfterDone(tracks, idm, batch_index, import) == <<>>

\* Msg::ImportMatchedDone
ImportMatchedDone ==
    /\ ~panicked
    /\ \E i \in ActiveOf(fetch_tasks, "add") :
        LET added == AddAfterDone(in_tracks, id_mapping, import_matched_batch_index,
                                  fetch_tasks[i].n)
        IN  /\ fetch_tasks' = Complete(fetch_tasks, i) \o added
            /\ import_matched_batch_index' = import_matched_batch_index + Len(added)
            /\ hist' = [hist EXCEPT
                          !.add_ok = IF fetch_tasks[i].n = hist.imports
                                     THEN @ \cup {fetch_tasks[i].input_id} ELSE @,
                          !.add_pages = @ \o [k \in DOMAIN added |-> added[k].input_id]]
    /\ error_message' = None
    /\ import_matched_done' = TRUE
    /\ last' = Event("ImportMatchedDone", "add", 0, Manual, 0)
    /\ UNCHANGED <<in_tracks, out_tracks, id_mapping, storage, out_playlists,
                   selected_out_playlist, fetch_out_tracks_queue,
                   fetch_out_tracks_remaining, fetch_out_tracks_remaining_batch_index,
                   reader_tasks, downloaded, panicked, used>>

\* the text of Msg::SetError for a failed call
ErrorText(kind) ==
    CASE kind = "playlists" -> "Request failed: get playlists"
      [] kind = "search" -> "Request failed: search track"
      [] kind = "tracks" -> "Request failed: get tracks"
      [] kind = "add" -> "Request failed: add to playlist"
      [] kind = "create" -> "Request failed: create playlist"

\* the failed call issued again
RetryAfterError(tasks, i) == Append(Complete(tasks, i), tasks[i])

\* the calls after Msg::SetError for the call of task i: the handler issues
\* none
TasksAfterError(tasks, i) == Complete(tasks, i)

\* Msg::SetError: a call has failed
SetError ==
    /\ ~panicked
    /\ \E i \in Active(fetch_tasks) :
        /\ fetch_tasks' = TasksAfterError(fetch_tasks, i)
        /\ error_message' = ErrorText(fetch_tasks[i].kind)
        /\ last' = Event("SetError", fetch_tasks[i].kind, 0, Manual, 0)
    /\ UNCHANGED <<in_tracks, out_tracks, id_mapping, storage, out_playlists,
                   selected_out_playlist, fetch_out_tracks_queue,
                   fetch_out_tracks_remaining, fetch_out_tracks_remaining_batch_index,
                   import_matched_batch_index, import_matched_done, reader_tasks,
                   downloaded, panicked, used, hist>>

\* Msg::Noop: the tick of the IntervalService
Noop ==
    /\ ~panicked
    /\ last' = UserEvent("Noop", 0)
    /\ UNCHANGED <<in_tracks, out_tracks, id_mapping, storage, out_playlists,
                   selected_out_playlist, fetch_out_tracks_queue,
                   fetch_out_tracks_remaining, fetch_out_tracks_remaining_batch_index,
                   import_matched_batch_index, import_matched_done, error_message,
                   fetch_tasks, reader_tasks, downloaded, panicked, used, hist>>

Next ==
    \/ OutPlaylistsLoaded
    \/ OutPlaylistSelected
    \/ CreatePlaylist
    \/ OutPlaylistCreated
    \/ InPlaylistSelected
    \/ InPlaylistLoaded
    \/ SetIdMapping
    \/ SetIdMappingNone
    \/ QueryOutTrack
    \/ OutTracksFound
    \/ RemainingOutTracksFound
    \/ ExportUnmatched
    \/ ImportMatched
    \/ ImportMatchedDone
    \/ SetError
    \/ Noop

Spec == Init /\ [][Next]_vars

\* a call is answered, with success or not
Completion ==
    \/ OutPlaylistsLoaded
    \/ OutPlaylistCreated
    \/ OutTracksFound
    \/ RemainingOutTracksFound
    \/ ImportMatchedDone
    \/ SetError

\* the state of the component
state == <<in_tracks, out_tracks, id_mapping, storage, out_playlists,
           selected_out_playlist, fetch_out_tracks_queue, fetch_out_tracks_remaining,
           fetch_out_tracks_remaining_batch_index, import_matched_batch_index,
           import_matched_done, error_message, fetch_tasks, reader_tasks,
           downloaded, panicked>>

\* the steps that need no user: a call is answered, a file has been read, the
\* IntervalService ticks
Autonomous == Completion \/ InPlaylistLoaded \/ Noop

(***************************************************************************)
(* Long playlists: the component over playlist files of one page of tracks *)
(* and more, every track with a stored mapping, in an environment where    *)
(* every call succeeds and a bulk lookup returns each requested track      *)
(***************************************************************************)
\* the i-th track of a long playlist; its adjusted query is its query
LongTrack(i) == [identifier |-> i, artist |-> <<"A">>, title |-> <<"T">>,
                 duration |-> 2]

\* the catalog id the i-th track is mapped to
LongUri(i) == HashBase + 100 + i

LongSizes == {PageSize, PageSize + 1, LongPages * PageSize + LongRest}

LongFiles == {[ok |-> TRUE, tracks |-> [i \in 1..n |-> LongTrack(i)]] : n \in LongSizes}

\* the store holds a mapping for every track
LongStored == [i \in 1..(LongPages * PageSize + LongRest) |-> LongUri(i)]

\* what a search can answer: nothing, or for the first track its mapped track
LongSearchResults(input_id) ==
    IF input_id = 1 THEN {<<>>, <<CatalogTrack(LongUri(1))>>} ELSE {<<>>}

InitLong == Created(LongStored)

\* Msg::InPlaylistSelected with a long file; one file is loaded in a run
LongPlaylistSelected ==
    /\ in_tracks = <<>>
    /\ reader_tasks = <<>>
    /\ \E file \in LongFiles : ReadFile(file)

\* Msg::OutTracksFound
LongOutTracksFound ==
    \E i \in ActiveOf(fetch_tasks, "search") :
        \E new_out_tracks \in LongSearchResults(fetch_tasks[i].input_id) :
            SearchAnswered(i, new_out_tracks)

\* Msg::RemainingOutTracksFound with each requested track
LongRemainingOutTracksFound ==
    \E i \in ActiveOf(fetch_tasks, "tracks") :
        BulkAnswered(i, Requested(fetch_tasks[i].request))

NextLong ==
    \/ OutPlaylistsLoaded
    \/ OutPlaylistSelected
    \/ LongPlaylistSelected
    \/ InPlaylistLoaded
    \/ LongOutTracksFound
    \/ LongRemainingOutTracksFound
    \/ ImportMatched
    \/ ImportMatchedDone

SpecLong == InitLong /\ [][NextLong]_vars

(***************************************************************************)
(* Partly mapped long playlists: the long playlist files over a store that *)
(* holds a mapping for every other track, and a catalog whose search finds *)
(* a track for one of the tracks without a mapping                         *)
(***************************************************************************)
\* the store holds a mapping for the first, the third, the fifth .. track
PartStored ==
    [i \in {k \in 1..(LongPages * PageSize + LongRest) : k % 2 = 1} |-> LongUri(i)]

\* what a search can answer: nothing, or for the second track a track
PartSearchResults(input_id) ==
    IF input_id = 2 THEN {<<>>, <<CatalogTrack(LongUri(2))>>} ELSE {<<>>}

InitPart == Created(PartStored)

\* Msg::OutTracksFound
PartOutTracksFound ==
    \E i \in ActiveOf(fetch_tasks, "search") :
        \E new_out_tracks \in PartSearchResults(fetch_tasks[i].input_id) :
            SearchAnswered(i, new_out_tracks)

NextPart ==
    \/ OutPlaylistsLoaded
    \/ OutPlaylistSelected
    \/ LongPlaylistSelected
    \/ InPlaylistLoaded
    \/ PartOutTracksFound
    \/ LongRemainingOutTracksFound
    \/ ImportMatched
    \/ ImportMatchedDone

SpecPart == InitPart /\ [][NextPart]_vars

(***************************************************************************)
(* Close scores: the component over a file of one track and a catalog      *)
(* whose candidates have scores less than 1/KeyScale apart                 *)
(***************************************************************************)
\* a candidate of the duration of TrackB whose text similarity is text/KeyScale
CloseTrack(text) == [identifier |-> 2 * KeyScale + text, text |-> text, duration |-> 3]

\* text similarities 1.000, 1.004, 1.008 and 1.010: with the duration term the
\* scores against TrackB are 0.6000, 0.6004, 0.6008 and 0.6010
CloseTexts == {KeyScale, KeyScale + 4, KeyScale + 8, KeyScale + 10}

\* what a search can answer: one or two candidates
CloseResults ==
    {<<CloseTrack(a)>> : a \in CloseTexts}
    \cup {<<CloseTrack(a), CloseTrack(b)>> : a \in CloseTexts, b \in CloseTexts}

InitClose == Created(EmptyMap)

\* Msg::InPlaylistSelected with the file of TrackB; one file is loaded in a run
ClosePlaylistSelected ==
    /\ in_tracks = <<>>
    /\ reader_tasks = <<>>
    /\ ReadFile([ok |-> TRUE, tracks |-> <<TrackB>>])

\* Msg::OutTracksFound with candidates
CloseOutTracksFound ==
    \E i \in ActiveOf(fetch_tasks, "search"), new_out_tracks \in CloseResults :
        SearchAnswered(i, new_out_tracks)

NextClose ==
    \/ OutPlaylistsLoaded
    \/ ClosePlaylistSelected
    \/ InPlaylistLoaded
    \/ QueryOutTrack
    \/ CloseOutTracksFound

SpecClose == InitClose /\ [][NextClose]_vars

(***************************************************************************)
(* Queries: the component over files of one track whose artist and title   *)
(* are any short texts, the searches finding nothing                       *)
(***************************************************************************)
Characters == {"a", " ", "(", ")"}

Texts(n) == UNION {[1..k -> Characters] : k \in 0..n}

\* the track of tests::adjusted_query: "Artist [Top]", "Title (feat. Somebody)"
ExampleTrack ==
    [identifier |-> 1,
     artist |-> <<"A", "r", "t", "i", "s", "t", " ", "[", "T", "o", "p", "]">>,
     title |-> <<"T", "i", "t", "l", "e", " ", "(", "f", "e", "a", "t", ".", " ",
                 "S", "o", "m", "e", "b", "o", "d", "y", ")">>,
     duration |-> 2]

TextTracks ==
    {[identifier |-> 1, artist |-> artist, title |-> title, duration |-> 2] :
        artist \in Texts(ShortArtist), title \in Texts(MaxTitle)}
    \cup {[identifier |-> 1, artist |-> artist, title |-> title, duration |-> 2] :
        artist \in Texts(MaxArtist), title \in Texts(ShortTitle)}
    \cup {ExampleTrack}

TextFiles == {[ok |-> TRUE, tracks |-> <<t>>] : t \in TextTracks}

InitText == Created(EmptyMap)

\* Msg::InPlaylistSelected with a file of one track; one file is loaded in a
\* run
TextPlaylistSelected ==
    /\ in_tracks = <<>>
    /\ reader_tasks = <<>>
    /\ \E file \in TextFiles : ReadFile(file)

\* Msg::OutTracksFound without results
TextOutTracksFound ==
    \E i \in ActiveOf(fetch_tasks, "search") : SearchAnswered(i, <<>>)

NextText ==
    \/ OutPlaylistsLoaded
    \/ TextPlaylistSelected
    \/ InPlaylistLoaded
    \/ TextOutTracksFound

SpecText == InitText /\ [][NextText]_vars

(***************************************************************************)
(* Properties                                                              *)
(***************************************************************************)
NoDuplicates(seq) == \A i, j \in DOMAIN seq : i # j => seq[i] # seq[j]

\* the MatchList of an input id
MatchList(ot, input_id) == IF input_id \in DOMAIN ot THEN ot[input_id] ELSE <<>>

\* C1: in every reachable state at most one catalog call of any kind is
\* outstanding
C1_AtMostOneCallOutstanding == Cardinality(Active(fetch_tasks)) <= 1

\* C2: searches are issued in the order their tasks were enqueued: the tasks
\* whose search has been issued are exactly the first hist.last_search tasks
\* enqueued, and the queue holds the others in the order they were enqueued
C2_SearchesInFifoOrder ==
    /\ hist.last_search + Len(fetch_out_tracks_queue) = hist.enq
    /\ \A i \in DOMAIN fetch_out_tracks_queue :
        fetch_out_tracks_queue[i].n = hist.last_search + i

\* two searches have been issued while a third task waits
C2_Witness ==
    /\ hist.last_search >= 2
    /\ fetch_out_tracks_queue # <<>>
    /\ ~panicked

\* the task numbered n, queued or with its search in flight: <<input id,
\* query, initiator>>
Numbered(queue, tasks, n) ==
    {<<queue[i].input_id, queue[i].query, queue[i].initiator>> :
        i \in {k \in DOMAIN queue : queue[k].n = n}}
    \cup {<<tasks[i].input_id, tasks[i].request, tasks[i].initiator>> :
        i \in {k \in ActiveOf(tasks, "search") : tasks[k].n = n}}

\* a search without results has been handled in this step: what it has
\* enqueued when its track has an adjusted query of its own
RetryStep ==
    (last'.msg = "OutTracksFound" /\ last'.found = 0 /\ ~panicked'
        /\ last'.input_id \in InTrackIds(in_tracks)
        /\ LET t == FindInTrack(in_tracks, last'.input_id)
           IN  adjusted_query(t) # query(t))
    => LET t == FindInTrack(in_tracks, last'.input_id)
       IN  /\ last'.initiator = Auto(1) =>
                /\ hist'.enq = hist.enq + 1
                /\ Numbered(fetch_out_tracks_queue', fetch_tasks', hist'.enq)
                     = {<<id(t), adjusted_query(t), Auto(2)>>}
           /\ last'.initiator = Auto(2) => hist'.enq = hist.enq

C4_DefaultMappingOnInsert ==
    [][\A input_id \in DOMAIN out_tracks' :
         (~panicked' /\ MatchList(out_tracks', input_id) # MatchList(out_tracks, input_id))
         => IF input_id \in DOMAIN id_mapping
            THEN /\ input_id \in DOMAIN id_mapping'
                 /\ id_mapping'[input_id] = id_mapping[input_id]
            ELSE /\ input_id \in DOMAIN id_mapping'
                 /\ id_mapping'[input_id] = out_tracks'[input_id][1].track.identifier
                 /\ \A k \in DOMAIN out_tracks'[input_id] :
                      SortKey(out_tracks'[input_id][1].similarity)
                        <= SortKey(out_tracks'[input_id][k].similarity)]_vars

\* a search has found candidates for a track that had no mapping: the only
\* user action has been the selection of the file, and the track is mapped to
\* the first candidate of its list, which outranks the second
C4_Witness ==
    /\ last.msg = "OutTracksFound"
    /\ last.found > 1
    /\ ~panicked
    /\ used = 1
    /\ last.input_id \in DOMAIN id_mapping
    /\ id_mapping[last.input_id] = out_tracks[last.input_id][1].track.identifier
    /\ \A stored \in StoredMappings :
        last.input_id \in DOMAIN stored => stored[last.input_id] # id_mapping[last.input_id]
    /\ SortKey(out_tracks[last.input_id][1].similarity)
         < SortKey(out_tracks[last.input_id][2].similarity)

\* C5: after every message the stored mapping is the mapping in memory
C5_StoreIsWrittenThrough == storage = id_mapping

\* the user has removed a mapping, and the store has followed
C5_Witness ==
    /\ last.msg = "SetIdMappingNone"
    /\ storage # EmptyMap
    /\ last.input_id \notin DOMAIN storage

\* no catalog call is outstanding and no file is being read: nothing happens
\* until the user acts
Idle == Active(fetch_tasks) = {} /\ reader_tasks = <<>> /\ ~panicked

\* the ids of the pages of a sequence of n entries
PageIds(n) == 0..(Ceil(n, PageSize) - 1)

\* C6 as stated: once the bulk lookups that follow the drain of the queue
\* have all been answered, Ceil(n / PageSize) pages have been requested for
\* the n entries the RemainderSet had when the queue drained, and every one
\* of these entries was in a requested page
C6_BulkPagesCoverRemainder ==
    (Idle /\ fetch_out_tracks_queue = <<>> /\ hist.pages # <<>>)
    => /\ Len(hist.pages) = Ceil(hist.drained_n, PageSize)
       /\ \A i \in DOMAIN hist.pages :
            Len(hist.pages[i]) = IF i < Len(hist.pages) \/ hist.drained_n % PageSize = 0
                                 THEN PageSize ELSE hist.drained_n % PageSize
       /\ fetch_out_tracks_remaining = <<>>

\* C7 as stated, in the form of its final result: after a load, when the
\* queue is empty and nothing is outstanding (so that nothing happens any
\* more until the user acts) the RemainderSet is empty
C7_RemainderDrains ==
    (Idle /\ in_tracks # <<>> /\ fetch_out_tracks_queue = <<>>)
    => fetch_out_tracks_remaining = <<>>

\* C8 as stated, in the form of its final result: when the calls of an
\* import have all succeeded and none is outstanding, the pages 0 ..
\* Ceil(n / PageSize) - 1 of the n input tracks have been submitted, one
\* call each
C8_AddCallsCoverTracks ==
    (hist.imports > 0 /\ ActiveOf(fetch_tasks, "add") = {} /\ ~panicked)
    => /\ Len(hist.add_pages) = Ceil(Len(in_tracks), PageSize)
       /\ Range(hist.add_pages) = PageIds(Len(in_tracks))

\* C9 as stated: the import-finished flag is set only when the call of
\* every page of the import has succeeded
C9_DoneOnlyAfterLastPage ==
    import_matched_done => hist.add_ok = PageIds(Len(in_tracks))

\* C10: right after a playlist is loaded, the queue holds only the Auto(1)
\* tasks that this load has pushed
C10_LoadDiscardsQueue ==
    (last.msg = "InPlaylistLoaded" /\ ~panicked)
    => \A i \in DOMAIN fetch_out_tracks_queue :
         /\ fetch_out_tracks_queue[i].initiator = Auto(1)
         /\ fetch_out_tracks_queue[i].n > hist.enq - Len(in_tracks)

\* C11: right after a playlist is loaded the Match Cache holds no MatchList
C11_LoadDiscardsMatchCache ==
    (last.msg = "InPlaylistLoaded" /\ ~panicked) => out_tracks = EmptyMap

\* C12: the results of a search whose input id is not the id of a track of
\* the loaded playlist are discarded: the step changes neither the Match
\* Cache nor the IdMapping nor the RemainderSet, and it does not panic
C12_StaleCompletionDiscarded ==
    [][(last'.msg = "OutTracksFound" /\ last'.input_id \notin InTrackIds(in_tracks))
       => /\ ~panicked'
          /\ UNCHANGED <<out_tracks, id_mapping, storage, fetch_out_tracks_remaining>>]_vars

\* C13: right after a successful completion of a call no error is displayed,
\* right after a failed one the error of this failure is displayed
C13_ErrorShowsLatestCompletion ==
    (last.call # "" /\ ~panicked)
    => error_message = IF last.msg = "SetError" THEN ErrorText(last.call) ELSE None

\* C14: a step that handles a failed call changes, of the state, the
\* displayed error only, and issues no call: the outstanding calls are those
\* of before less the failed one
C14_FailureChangesErrorOnly ==
    [][last'.msg = "SetError"
       => /\ UNCHANGED <<fetch_out_tracks_queue, fetch_out_tracks_remaining,
                         fetch_out_tracks_remaining_batch_index, out_tracks,
                         id_mapping, storage, import_matched_batch_index,
                         import_matched_done, in_tracks, hist>>
          /\ Len(fetch_tasks') = Len(fetch_tasks) - 1
          /\ Range(fetch_tasks') \subseteq Range(fetch_tasks)
          /\ error_message' = ErrorText(last'.call)]_vars

\* a search has failed while tasks were queued and the RemainderSet was not
\* empty
C14_Witness ==
    /\ last.msg = "SetError"
    /\ last.call = "search"
    /\ fetch_out_tracks_queue # <<>>
    /\ fetch_out_tracks_remaining # <<>>

\* C15: a tick while no call is outstanding issues the search of the head of
\* the queue when the queue is not empty, and the next bulk-lookup page when
\* the queue is empty and a page of the RemainderSet is still to fetch
C15_TickEntersOrchestrator ==
    [][(last'.msg = "Noop" /\ Active(fetch_tasks) = {})
       => IF fetch_out_tracks_queue # <<>>
          THEN /\ fetch_out_tracks_queue' = Tail(fetch_out_tracks_queue)
               /\ \E i \in ActiveOf(fetch_tasks', "search") :
                    fetch_tasks'[i].n = Head(fetch_out_tracks_queue).n
          ELSE fetch_out_tracks_remaining_batch_index
                    < Ceil(Len(fetch_out_tracks_remaining), PageSize)
               => ActiveOf(fetch_tasks', "tracks") # {}]_vars

UnmatchedAt(tracks, idm) == {i \in DOMAIN tracks : id(tracks[i]) \notin DOMAIN idm}

C16_QueueKeepsDraining ==
    (fetch_out_tracks_queue # <<>> /\ Active(fetch_tasks) = {}
        /\ reader_tasks = <<>> /\ ~panicked)
    => ENABLED <<Autonomous>>_state

\* a is b with entries left out
RECURSIVE IsSubSeq(_, _)
IsSubSeq(a, b) ==
    IF a = <<>> THEN TRUE
    ELSE IF b = <<>> THEN FALSE
    ELSE IF Head(a) = Head(b) THEN IsSubSeq(Tail(a), Tail(b))
    ELSE IsSubSeq(a, Tail(b))

\* C18 as stated: an insert makes the MatchList of its input id longer by
\* the number of new candidates, keeps the entries it had in their order, and
\* leaves the list ordered descending by score
C18_InsertAppendsAndSortsByScore ==
    [][(last'.msg = "OutTracksFound" /\ last'.found > 0 /\ ~panicked')
       => LET old == MatchList(out_tracks, last'.input_id)
              new == MatchList(out_tracks', last'.input_id)
          IN  /\ Len(new) = Len(old) + last'.found
              /\ IsSubSeq(old, new)
              /\ \A i, j \in DOMAIN new :
                    i < j => new[i].similarity >= new[j].similarity]_vars

\* no space at either end and no two spaces in a row
WellSpaced(s) ==
    /\ s # <<>> => ~IsSpace(s[1]) /\ ~IsSpace(s[Len(s)])
    /\ \A i \in 1..(Len(s) - 1) : ~(IsSpace(s[i]) /\ IsSpace(s[i + 1]))

\* C20 as stated: the query of every queued task and of every outstanding
\* search (query(track) for Auto(1), adjusted_query(track) for Auto(2)) of a
\* track whose artist or title is not empty has no two spaces in a row and no
\* space at either end
C20_QueriesAreWellSpaced ==
    \A t \in Range(in_tracks) :
        (t.artist # <<>> \/ t.title # <<>>)
        => /\ \A i \in DOMAIN fetch_out_tracks_queue :
                fetch_out_tracks_queue[i].input_id = id(t)
                => WellSpaced(fetch_out_tracks_queue[i].query)
           /\ \A i \in ActiveOf(fetch_tasks, "search") :
                fetch_tasks[i].input_id = id(t) => WellSpaced(fetch_tasks[i].request)

\* the text has a span that starts with an opening and ends with a closing
\* bracket
HasSpan(s) == \E i, j \in DOMAIN s : i < j /\ IsOpen(s[i]) /\ IsClose(s[j])

\* C21: for every loaded track the artist and title parts that the adjusted
\* query is built from are not longer than the fields, and when neither field
\* has a bracketed span the adjusted query is the query
C21_AdjustedQueryOnlyDropsSpans ==
    \A t \in Range(in_tracks) :
        /\ Len(ReplaceBrackets(t.artist)) <= Len(t.artist)
        /\ Len(ReplaceBrackets(t.title)) <= Len(t.title)
        /\ (~HasSpan(t.artist) /\ ~HasSpan(t.title)) => adjusted_query(t) = query(t)

\* the search of a retry is outstanding: its query is the adjusted query of a
\* track whose title has lost a span, and it is not the query of the track
C21_Witness ==
    \E t \in Range(in_tracks), i \in ActiveOf(fetch_tasks, "search") :
        /\ fetch_tasks[i].initiator = Auto(2)
        /\ fetch_tasks[i].request = adjusted_query(t)
        /\ fetch_tasks[i].request # query(t)
        /\ HasSpan(t.title)
        /\ Len(ReplaceBrackets(t.title)) < Len(t.title)

\* the search of a queued task is issued in this step
SearchIssued == hist'.last_search # hist.last_search

\* the bulk lookups outstanding after the step less those of before that
\* this step has not answered: the bulk lookups issued in this step
BulkIssued ==
    Cardinality(ActiveOf(fetch_tasks', "tracks"))
    - Cardinality(ActiveOf(fetch_tasks, "tracks"))
    + (IF last'.call = "tracks" THEN 1 ELSE 0)

\* searches and bulk lookups outstanding
Lookups(tasks) == ActiveOf(tasks, "search") \cup ActiveOf(tasks, "tracks")

\* C22: a step that issues a search or a bulk lookup leaves this call the
\* only outstanding call of any kind, and at most one search or bulk lookup
\* is outstanding at any time
C22_LookupIssuedOnlyWhenIdle ==
    [][/\ (SearchIssued \/ BulkIssued > 0) => Cardinality(Active(fetch_tasks')) = 1
       /\ Cardinality(Lookups(fetch_tasks')) <= 1]_vars

\* a search has been answered while an add-items call was outstanding and a
\* task was queued: no search is issued, the task stays queued
C22_Witness ==
    /\ last.msg = "OutTracksFound"
    /\ fetch_out_tracks_queue # <<>>
    /\ ActiveOf(fetch_tasks, "add") # {}
    /\ Lookups(fetch_tasks) = {}
    /\ ~panicked

\* C23: a step that enqueues a retry leaves it the last task of the queue,
\* behind every task that was queued before (but for the head, when its search
\* is issued in this step); when no task was queued and no call outstanding
\* the search of the retry is issued at once. A step that issues the search
\* of a task leaves no task queued that was enqueued before it
C23_RetryGoesToTheBack ==
    [][/\ (last'.msg = "OutTracksFound" /\ hist'.enq = hist.enq + 1)
          => IF fetch_out_tracks_queue = <<>> /\ SearchIssued
             THEN /\ fetch_out_tracks_queue' = <<>>
                  /\ hist'.last_search = hist'.enq
             ELSE LET queue == fetch_out_tracks_queue'
                  IN  /\ queue # <<>>
                      /\ queue[Len(queue)].n = hist'.enq
                      /\ queue[Len(queue)].initiator = Auto(2)
                      /\ \A i \in DOMAIN fetch_out_tracks_queue :
                            \/ \E j \in 1..(Len(queue) - 1) :
                                    queue[j] = fetch_out_tracks_queue[i]
                            \/ /\ i = 1
                               /\ hist'.last_search = fetch_out_tracks_queue[1].n
       /\ SearchIssued
          => \A i \in DOMAIN fetch_out_tracks_queue' :
                fetch_out_tracks_queue'[i].n > hist'.last_search]_vars

\* a search without results has enqueued a retry behind two queued tasks, of
\* which the first has had its search issued
C23_Witness ==
    /\ last.msg = "OutTracksFound"
    /\ last.found = 0
    /\ last.initiator = Auto(1)
    /\ Len(fetch_out_tracks_queue) = 2
    /\ fetch_out_tracks_queue[1].initiator = Manual
    /\ fetch_out_tracks_queue[2].initiator = Auto(2)
    /\ fetch_out_tracks_queue[2].n = hist.enq
    /\ ActiveOf(fetch_tasks, "search") # {}

\* C24: a search without results whose initiator is Manual or Auto(2), or
\* Auto(1) for a loaded track whose adjusted query is its query, enqueues no
\* task: the queue stays as it is or loses its head, whose search is then
\* issued
C24_NoRetryOtherwise ==
    [][(/\ last'.msg = "OutTracksFound"
        /\ last'.found = 0
        /\ ~panicked'
        /\ \/ last'.initiator = Manual
           \/ last'.initiator = Auto(2)
           \/ /\ last'.initiator = Auto(1)
              /\ LET t == FindInTrack(in_tracks, last'.input_id)
                 IN  adjusted_query(t) = query(t))
       => /\ hist'.enq = hist.enq
          /\ \/ fetch_out_tracks_queue' = fetch_out_tracks_queue /\ ~SearchIssued
             \/ /\ fetch_out_tracks_queue # <<>>
                /\ fetch_out_tracks_queue' = Tail(fetch_out_tracks_queue)
                /\ hist'.last_search = Head(fetch_out_tracks_queue).n]_vars

\* the first automatic search of a track whose adjusted query is its query
\* has found nothing: nothing is enqueued, and the search of the next task is
\* outstanding
C24_Witness ==
    /\ last.msg = "OutTracksFound"
    /\ last.found = 0
    /\ last.initiator = Auto(1)
    /\ ~panicked
    /\ last.input_id \in InTrackIds(in_tracks)
    /\ LET t == FindInTrack(in_tracks, last.input_id)
       IN  adjusted_query(t) = query(t)
    /\ \E i \in ActiveOf(fetch_tasks, "search") : fetch_tasks[i].initiator = Manual
    /\ fetch_out_tracks_queue = <<>>

\* C25: a step that issues a bulk lookup leaves the queue empty, having
\* found it empty and enqueued nothing, and the page it asks for, the one at
\* the cursor before the increment, is a page of the RemainderSet as it is
\* then; the bulk lookup is the only lookup outstanding
C25_BulkLookupOnlyOnEmptyQueue ==
    [][BulkIssued > 0
       => /\ fetch_out_tracks_queue' = <<>>
          /\ fetch_out_tracks_queue = <<>>
          /\ hist'.enq = hist.enq
          /\ ~SearchIssued
          /\ fetch_out_tracks_remaining_batch_index' - 1
                < Ceil(Len(fetch_out_tracks_remaining'), PageSize)]_vars

\* the last queued search has been answered and the bulk lookup of the first
\* page is outstanding
C25_Witness ==
    /\ last.msg = "OutTracksFound"
    /\ fetch_out_tracks_queue = <<>>
    /\ ActiveOf(fetch_tasks, "tracks") # {}
    /\ fetch_out_tracks_remaining # <<>>
    /\ fetch_out_tracks_remaining_batch_index = 1

\* the catalog track is a candidate of a MatchList of the Match Cache
InMatchCache(ot, output_id) ==
    \E k \in DOMAIN ot : \E i \in DOMAIN ot[k] : ot[k][i].track.identifier = output_id

\* C26 as stated: right after a playlist is loaded the RemainderSet holds the
\* pair of input id and mapped catalog id of each input track that has a
\* mapping to a catalog track that is not in the Match Cache, no other pair,
\* and the page cursor is 0
C26_RemainderAfterLoad ==
    (last.msg = "InPlaylistLoaded" /\ ~panicked)
    => /\ Range(fetch_out_tracks_remaining)
            = {<<id(t), id_mapping[id(t)]>> :
                t \in {u \in Range(in_tracks) :
                        /\ id(u) \in DOMAIN id_mapping
                        /\ ~InMatchCache(out_tracks, id_mapping[id(u)])}}
       /\ NoDuplicates(fetch_out_tracks_remaining)
       /\ fetch_out_tracks_remaining_batch_index = 0

\* the MatchList of the entry has grown (an insert for its input id) and
\* holds the catalog track recorded in the entry
Resolved(e, old, new) ==
    /\ MatchList(new, e[1]) # MatchList(old, e[1])
    /\ \E i \in DOMAIN MatchList(new, e[1]) :
            MatchList(new, e[1])[i].track.identifier = e[2]

\* the RemainderSet without the entries that the inserts of a step resolve
RemainderAfterInserts(rem, old, new) ==
    SelectSeq(rem, LAMBDA e : ~Resolved(e, old, new))

\* C27: a step other than a playlist load leaves in the RemainderSet the
\* entries it had, in their order, less those of the input ids for which it
\* has inserted candidates and whose MatchList now holds the catalog track
\* recorded in the entry; it adds none
C27_InsertRemovesResolvedEntry ==
    [][last'.msg # "InPlaylistLoaded"
       => fetch_out_tracks_remaining'
            = RemainderAfterInserts(fetch_out_tracks_remaining, out_tracks, out_tracks')]_vars

\* a search has found the catalog track recorded for its track, and another
\* candidate: the entry of the track has left the RemainderSet, in which the
\* entry of the other track stays
C27_Witness ==
    /\ last.msg = "OutTracksFound"
    /\ last.found > 1
    /\ ~panicked
    /\ used = 1
    /\ last.input_id \in DOMAIN id_mapping
    /\ \E i \in DOMAIN out_tracks[last.input_id] :
            out_tracks[last.input_id][i].track.identifier = id_mapping[last.input_id]
    /\ fetch_out_tracks_remaining # <<>>
    /\ \A i \in DOMAIN fetch_out_tracks_remaining :
            fetch_out_tracks_remaining[i][1] # last.input_id

\* C28: a playlist load sets the page cursor to 0; from there, or in any
\* other step from where it was, the cursor goes up by one for each bulk
\* lookup that the step issues, and a step issues at most one
C28_CursorCountsBulkLookups ==
    [][/\ BulkIssued \in {0, 1}
       /\ fetch_out_tracks_remaining_batch_index'
            = (IF last'.msg = "InPlaylistLoaded" /\ ~panicked' THEN 0
               ELSE fetch_out_tracks_remaining_batch_index) + BulkIssued]_vars

\* a playlist has been loaded after a bulk lookup was issued and answered
\* (the Match Cache holds a track that only a bulk lookup returns): the
\* cursor, which was 1, is 0
C28_Witness ==
    /\ last.msg = "InPlaylistLoaded"
    /\ ~panicked
    /\ fetch_out_tracks_remaining_batch_index = 0
    /\ \E stored \in StoredMappings, k \in DOMAIN out_tracks :
        /\ k \in DOMAIN stored
        /\ \A r \in SearchResults : \A i \in DOMAIN r : r[i].identifier # stored[k]
        /\ InMatchCache(out_tracks, stored[k])

\* the pages of the bulk lookups outstanding
OutstandingPages(tasks) == {tasks[i].request : i \in ActiveOf(tasks, "tracks")}

\* C29 as stated: when a bulk lookup is answered with the tracks it asked
\* for, every entry of its page that is still in the RemainderSet has its
\* catalog track in the MatchList of its input id after the step, and has
\* left the RemainderSet
C29_BulkAnswerResolvesItsPage ==
    [][(last'.msg = "RemainingOutTracksFound" /\ ~panicked')
       => \A page \in OutstandingPages(fetch_tasks) :
            \A e \in Range(page) \cap Range(fetch_out_tracks_remaining) :
                /\ \E i \in DOMAIN MatchList(out_tracks', e[1]) :
                        MatchList(out_tracks', e[1])[i].track.identifier = e[2]
                /\ e \notin Range(fetch_out_tracks_remaining')]_vars

\* the answer of a bulk lookup handled in this step holds more tracks than
\* its page has entries: a lookup returns the tracks asked for, so one of
\* them was not asked for
LongerThanPage ==
    /\ last'.call = "tracks"
    /\ last'.msg # "SetError"
    /\ \E page \in OutstandingPages(fetch_tasks) : last'.found > Len(page)

\* C30: the answer of a bulk lookup that holds a track that was not asked
\* for stops the component, and the step leaves the Match Cache, the
\* IdMapping, the store and the RemainderSet as they were
C30_UnexpectedTrackIsFatal ==
    [][LongerThanPage
       => /\ panicked'
          /\ UNCHANGED <<out_tracks, id_mapping, storage, fetch_out_tracks_remaining,
                         fetch_out_tracks_queue,
                         fetch_out_tracks_remaining_batch_index>>]_vars

\* the answer of a bulk lookup held the track asked for and one that was not:
\* the component has stopped, and the track asked for is not in the Match
\* Cache
C30_Witness ==
    /\ panicked
    /\ last.msg = "Panic"
    /\ last.call = "tracks"
    /\ last.found > 1
    /\ \A e \in Range(fetch_out_tracks_remaining) : ~InMatchCache(out_tracks, e[2])
    /\ fetch_out_tracks_remaining # <<>>

\* the messages of a user who sets or removes a mapping
MappingChoices == {"SetIdMapping", "SetIdMappingNone"}

\* C31: a step that changes the IdMapping or the stored mapping is a set or
\* a remove of the user, or a step whose inserts give a mapping to input ids
\* that had none and got candidates, every other entry staying as it was; a
\* load, the enqueue of a manual search, a search without results, a failed
\* call, a tick, an import, an export, the selection and the creation of a
\* playlist change neither
C31_MappingChangesOnlyByChoiceOrInsert ==
    [][(last'.msg \notin MappingChoices)
       => /\ \A k \in DOMAIN id_mapping :
                k \in DOMAIN id_mapping' /\ id_mapping'[k] = id_mapping[k]
          /\ \A k \in DOMAIN id_mapping' \ DOMAIN id_mapping :
                /\ last'.msg \in {"OutTracksFound", "RemainingOutTracksFound"}
                /\ last'.found > 0
                /\ MatchList(out_tracks', k) # MatchList(out_tracks, k)
          /\ storage' # storage => id_mapping' # id_mapping]_vars

\* a playlist has been loaded while the IdMapping held an entry that an
\* insert had made: the entry is still there
C31_Witness ==
    /\ last.msg = "InPlaylistLoaded"
    /\ ~panicked
    /\ used = 2
    /\ id_mapping # EmptyMap
    /\ id_mapping \notin StoredMappings
    /\ storage = id_mapping

\* the add-items calls issued in this step
AddIssued ==
    {fetch_tasks'[i] : i \in ActiveOf(fetch_tasks', "add")}
    \ {fetch_tasks[i] : i \in ActiveOf(fetch_tasks, "add")}

\* the positions of page k that hold a track with a mapping
MappedAt(tracks, idm, k) ==
    {i \in DOMAIN tracks :
        /\ PageSize * k < i
        /\ i <= PageSize * k + PageSize
        /\ id(tracks[i]) \in DOMAIN idm}

\* uris are the mappings of the mapped tracks of page k, in the order of the
\* tracks
IsPageOf(uris, tracks, idm, k) ==
    /\ Len(uris) = Cardinality(MappedAt(tracks, idm, k))
    /\ \A j \in DOMAIN uris :
        \E i \in MappedAt(tracks, idm, k) :
            /\ uris[j] = idm[id(tracks[i])]
            /\ Cardinality({m \in MappedAt(tracks, idm, k) : m < i}) = j - 1

\* C32: an add-items call issued in a step carries, for its page, the
\* mappings that the tracks of the page have in this step, in the order of the
\* tracks, PageSize ids at most
C32_AddCallCarriesMappedPage ==
    [][\A task \in AddIssued :
         /\ IsPageOf(task.request, in_tracks, id_mapping, task.input_id)
         /\ Len(task.request) <= PageSize]_vars

\* an add-items call for the first page of a playlist of more than a page is
\* outstanding with the mappings of every other track; the second track has
\* got a mapping since, which the call does not carry
C32_Witness ==
    /\ Len(in_tracks) > PageSize
    /\ 2 \in DOMAIN id_mapping
    /\ \E i \in ActiveOf(fetch_tasks, "add") :
        /\ fetch_tasks[i].input_id = 0
        /\ Len(fetch_tasks[i].request) * 2 = PageSize
        /\ \A j \in DOMAIN fetch_tasks[i].request :
                fetch_tasks[i].request[j] # id_mapping[2]

\* the text without the span from its first opening bracket to its last
\* closing bracket; the text itself when it has no such span
StripSpan(s) ==
    LET opens == {i \in DOMAIN s : IsOpen(s[i])}
        closes == {i \in DOMAIN s : IsClose(s[i])}
    IN  IF opens = {} \/ closes = {} THEN s
        ELSE LET first == CHOOSE i \in opens : \A m \in opens : i <= m
                 last_close == CHOOSE i \in closes : \A m \in closes : m <= i
             IN  IF first < last_close
                 THEN SubSeq(s, 1, first - 1) \o SubSeq(s, last_close + 1, Len(s))
                 ELSE s

\* the queries of the Auto(2) tasks, queued or with their search outstanding
RetryQueries ==
    {fetch_out_tracks_queue[i].query :
        i \in {k \in DOMAIN fetch_out_tracks_queue :
                 fetch_out_tracks_queue[k].initiator = Auto(2)}}
    \cup {fetch_tasks[i].request :
        i \in {k \in ActiveOf(fetch_tasks, "search") :
                 fetch_tasks[k].initiator = Auto(2)}}

\* "Artist Title"
ExampleAdjusted == <<"A", "r", "t", "i", "s", "t", " ", "T", "i", "t", "l", "e">>

\* C33: the adjusted query of the loaded track, which the retry tasks carry,
\* is the query of the track whose artist and title have each lost the span
\* from the first opening to the last closing bracket; for the track of the
\* example it is "Artist Title"
C33_AdjustedQueryStripsOneSpanPerField ==
    \A t \in Range(in_tracks) :
        /\ adjusted_query(t)
             = query([t EXCEPT !.artist = StripSpan(t.artist),
                               !.title = StripSpan(t.title)])
        /\ RetryQueries \subseteq {adjusted_query(t)}
        /\ t = ExampleTrack => adjusted_query(t) = ExampleAdjusted

\* the search of the retry of the track of the example is outstanding with
\* the query "Artist Title"
C33_Witness ==
    /\ in_tracks = <<ExampleTrack>>
    /\ RetryQueries = {ExampleAdjusted}
    /\ \E i \in ActiveOf(fetch_tasks, "search") : fetch_tasks[i].initiator = Auto(2)

\* the characters of a text that are not spaces
Letters(s) == SelectSeq(s, LAMBDA c : ~IsSpace(c))

\* q is a, one space and b, with whatever changes of the whitespace inside a
\* and inside b
JoinedByOneSpace(q, a, b) ==
    \E k \in 2..(Len(q) - 1) :
        /\ IsSpace(q[k])
        /\ ~IsSpace(q[k - 1])
        /\ ~IsSpace(q[k + 1])
        /\ Letters(SubSeq(q, 1, k - 1)) = Letters(a)
        /\ Letters(SubSeq(q, k + 1, Len(q))) = Letters(b)

\* q is a alone, with whatever changes of the whitespace inside a: no space
\* before or after it
Alone(q, a) ==
    /\ Letters(q) = Letters(a)
    /\ q # <<>> => ~IsSpace(q[1]) /\ ~IsSpace(q[Len(q)])

C35_UndefinedScoreRanksLast ==
    [][/\ (/\ last'.msg = "OutTracksFound"
           /\ last'.found > 0
           /\ last'.input_id \in InTrackIds(in_tracks))
          => ~panicked'
       /\ \A k \in DOMAIN out_tracks' :
            \A i, j \in DOMAIN out_tracks'[k] :
                (i < j /\ out_tracks'[k][i].similarity = NaN)
                => out_tracks'[k][j].similarity = NaN]_vars

\* a second answer of two candidates has been inserted for the track of
\* duration 0: the candidate without a score of the first answer, which
\* arrived before the candidate with a score of the second, is behind it
C35_Witness ==
    /\ last.msg = "OutTracksFound"
    /\ last.found = 2
    /\ ~panicked
    /\ last.input_id = id(TrackC)
    /\ last.input_id \in DOMAIN out_tracks
    /\ Len(out_tracks[last.input_id]) = 4
    /\ out_tracks[last.input_id][2].similarity # NaN
    /\ out_tracks[last.input_id][3].similarity = NaN

\* C36: a step that inserts candidates for an input id without a mapping,
\* be it that it never had one or that the user has removed it (from the
\* store, or after earlier candidates had set it), maps the id to the first
\* candidate of the updated MatchList, which no candidate of the list
\* outranks, and stores the mapping
C36_RemovedMappingIsSetAgain ==
    [][\A k \in DOMAIN out_tracks' :
         (/\ k \notin DOMAIN id_mapping
          /\ ~panicked'
          /\ MatchList(out_tracks', k) # MatchList(out_tracks, k))
         => /\ k \in DOMAIN id_mapping'
            /\ id_mapping'[k] = out_tracks'[k][1].track.identifier
            /\ \A i \in DOMAIN out_tracks'[k] :
                    SortKey(out_tracks'[k][1].similarity)
                        <= SortKey(out_tracks'[k][i].similarity)
            /\ k \in DOMAIN storage'
            /\ storage'[k] = id_mapping'[k]]_vars

\* the store held a mapping for the track, which the user has removed before
\* the first candidates arrived (until then the user can choose no other
\* track than the mapped one): the insert of the candidates has mapped the
\* track to the first of them, another track than the store held, and stored
\* the mapping
C36_Witness ==
    /\ last.msg = "OutTracksFound"
    /\ last.found = 2
    /\ ~panicked
    /\ last.input_id = id(TrackA)
    /\ Len(MatchList(out_tracks, id(TrackA))) = 2
    /\ \E stored \in StoredMappings :
        /\ id(TrackA) \in DOMAIN stored
        /\ \A k \in DOMAIN stored \ {id(TrackA)} :
                k \in DOMAIN id_mapping /\ id_mapping[k] = stored[k]
        /\ id(TrackA) \in DOMAIN id_mapping
        /\ id_mapping[id(TrackA)] # stored[id(TrackA)]
    /\ id_mapping[id(TrackA)] = out_tracks[id(TrackA)][1].track.identifier
    /\ storage = id_mapping

====
